---- MODULE Spec2Model ----
(***************************************************************************)
(* The three Streamlit dashboards of public-baseball:                      *)
(*   shape_consistency_app.py            ("shape")                         *)
(*   mvmt_profile_distributions_app.py   ("mvmt")                          *)
(*   player_profile_app.py               ("profile")                       *)
(* Each loads the 2024 season (eight monthly files), caches the table and  *)
(* re-runs its script on every selection the user makes.                   *)
(*                                                                         *)
(* Numbers.  pandas works in floating point; here a float is an exact      *)
(* rational [nan, num, den] (den > 0), NaN being nan = TRUE.  A            *)
(* consistency score is carried as its radicand (the score squared):       *)
(* np.sqrt is strictly increasing on the non-negative numbers, so two      *)
(* scores compare exactly as their radicands do.                           *)
(***************************************************************************)
EXTENDS Integers, Sequences, FiniteSets, TLC

VARIABLES
    app,        \* which of the three scripts is running
    pc,         \* "loading" | "ready" (the loader returned) | "raised" (it raised)
    month,      \* the loader's loop variable (3..10, 11 once the loop is over)
    combined,   \* combined_data inside the loader: the raw rows read so far
    has_cols,   \* whether combined_data has columns (some file was parsed)
    reported,   \* the months st.warning / st.error reported
    mapped,     \* combined_data after the pitch-type map and the Unknown filter
    data,       \* the table the loader returned (cached by st.cache_data)
    sel,        \* the selection of the last script run
    view        \* what the last script run rendered

vars == <<app, pc, month, combined, has_cols, reported, mapped, data, sel, view>>

(***************************************************************************)
(* Bounds of the model.                                                    *)
(***************************************************************************)
MaxRows == 4            \* rows of a season table a script run works on

\* feet of movement a row may carry (raw Statcast pfx_x / pfx_z)
Moves == {0, 1}

PlayerSeq == <<"p1", "p2">>
Players == {PlayerSeq[i] : i \in 1..Len(PlayerSeq)}

(***************************************************************************)
(* Rationals and NaN.                                                      *)
(***************************************************************************)
NaN == [nan |-> TRUE, num |-> 0, den |-> 1]
Frac(n, d) == [nan |-> FALSE, num |-> n, den |-> d]

\* float == : NaN equals nothing, itself included
FEq(a, b) == ~a.nan /\ ~b.nan /\ a.num * b.den = b.num * a.den
\* float <= and < : every comparison with NaN is False
FLeq(a, b) == ~a.nan /\ ~b.nan /\ a.num * b.den <= b.num * a.den
FLt(a, b) == ~a.nan /\ ~b.nan /\ a.num * b.den < b.num * a.den
\* float + : NaN propagates
FAdd(a, b) ==
    IF a.nan \/ b.nan THEN NaN
    ELSE IF a.den = b.den THEN Frac(a.num + b.num, a.den)
    ELSE Frac(a.num * b.den + b.num * a.den, a.den * b.den)

(***************************************************************************)
(* Tables: a DataFrame is the sequence of its rows, a row a record of its  *)
(* columns.                                                                *)
(***************************************************************************)
RECURSIVE SumSeq(_)
SumSeq(s) == IF s = <<>> THEN 0 ELSE Head(s) + SumSeq(Tail(s))

Rows(df) == {df[i] : i \in 1..Len(df)}

\* Series.std(): the sample standard deviation (ddof = 1), squared.
\* pandas: avg = sum / n; sum((x - avg)^2) / (n - 1); NaN when n < 2.
\* sum((x - S/n)^2) = sum((n*x - S)^2) / n^2
std_ddof0_sq(xs) ==
    LET n == Len(xs)
        S == SumSeq(xs)
    IN IF n < 1 THEN NaN
       ELSE Frac(SumSeq([i \in 1..n |-> (n * xs[i] - S) * (n * xs[i] - S)]), n * n * n)
std_sq(xs) ==
    LET n == Len(xs)
        S == SumSeq(xs)
    IN IF n < 2 THEN NaN
       ELSE Frac(SumSeq([i \in 1..n |-> (n * xs[i] - S) * (n * xs[i] - S)]),
                 n * n * (n - 1))

\* df["pfx_x"], df["pfx_z"], df["release_speed"]
ColX(df) == [i \in 1..Len(df) |-> df[i].pfx_x]
ColZ(df) == [i \in 1..Len(df) |-> df[i].pfx_z]
ColV(df) == [i \in 1..Len(df) |-> df[i].release_speed]

\* np.sqrt(x["pfx_x"].std()**2 + x["pfx_z"].std()**2), as its radicand
consistency2_sq(group) == FAdd(std_sq(ColX(group)), std_sq(ColZ(group)))

\* Series.rank(): method "average", ascending, na_option "keep".
\* The average of the positions less+1 .. less+equal is less + (equal + 1)/2.
rank(scores) ==
    [p \in DOMAIN scores |->
        IF scores[p].nan THEN NaN
        ELSE Frac(2 * Cardinality({q \in DOMAIN scores : FLt(scores[q], scores[p])})
                    + Cardinality({q \in DOMAIN scores : FEq(scores[q], scores[p])}) + 1, 2)]

\* int(x) of a float: truncation; int(nan) raises ValueError
IntOf(x) == x.num \div x.den

\* sorted(data["player_name"].dropna().unique())
all_pitchers(df) == {r.player_name : r \in Rows(df)}
\* pitcher_data["pitch_type"].dropna().unique()
arsenal_of(df, pitcher_name) ==
    {r.pitch_type : r \in {q \in Rows(df) : q.player_name = pitcher_name}}

(***************************************************************************)
(* The season's rows are the input of a script.  They are read one at a    *)
(* time before the first run, and enumerated up to their order (every      *)
(* aggregate below is a groupby aggregate, which does not depend on it): a *)
(* row is read only if it does not come before the last one in the row     *)
(* domain.                                                                 *)
(***************************************************************************)
PosIn(dom, r) == CHOOSE i \in 1..Len(dom) : dom[i] = r
\* the positions in the row domain of the rows that may be read next
Followers(dom, df) ==
    IF Len(df) >= MaxRows THEN {}
    ELSE IF df = <<>> THEN 1..Len(dom)
    ELSE PosIn(dom, df[Len(df)])..Len(dom)

\* some enumeration of a finite set of rows
RECURSIVE SetToSeq(_)
SetToSeq(S) ==
    IF S = {} THEN <<>>
    ELSE LET x == CHOOSE y \in S : TRUE IN <<x>> \o SetToSeq(S \ {x})

\* rows as shape_consistency_app reads them (columns_to_keep), pitch type mapped
ShapeTypes == {"Four-Seam Fastball", "Slider"}
ShapeRowSet ==
    [player_name : Players, pitch_type : ShapeTypes, pfx_x : Moves, pfx_z : Moves]

(***************************************************************************)
(* shape_consistency_app.py: one run of the script with a pitcher and a    *)
(* pitch type selected.                                                    *)
(***************************************************************************)
ByPlayer(df, p) == LET Keep(r) == r.player_name = p IN SelectSeq(df, Keep)
ByType(df, t) == LET Keep(r) == r.pitch_type = t IN SelectSeq(df, Keep)

\* pitch_type_data.groupby("player_name").apply(...)
shape_consistency_scores(df, pitch_type) ==
    LET pitch_type_data == ByType(df, pitch_type)
    IN [p \in all_pitchers(pitch_type_data) |-> consistency2_sq(ByPlayer(pitch_type_data, p))]

\* lines 106-107: pitch_data gets the two inch columns
ShapeInchesPerFoot == 12
with_inches(pitch_data) ==
    [i \in 1..Len(pitch_data) |->
        [player_name |-> pitch_data[i].player_name,
         pitch_type |-> pitch_data[i].pitch_type,
         pfx_x |-> pitch_data[i].pfx_x,
         pfx_z |-> pitch_data[i].pfx_z,
         pfx_x_inches |-> pitch_data[i].pfx_x * ShapeInchesPerFoot,
         pfx_z_inches |-> pitch_data[i].pfx_z * ShapeInchesPerFoot]]
ColXInches(df) == [i \in 1..Len(df) |-> df[i].pfx_x_inches]
ColZInches(df) == [i \in 1..Len(df) |-> df[i].pfx_z_inches]

NoView == [kind |-> "none"]
NoSel == [pitcher_name |-> "", pitch_type |-> ""]

ShapeView(df, pitcher_name, pitch_type) ==
    LET pitcher_data == ByPlayer(df, pitcher_name)
        pitch_data == ByType(pitcher_data, pitch_type)
        overall_consistency_score == consistency2_sq(pitch_data)
        consistency_scores == shape_consistency_scores(df, pitch_type)
        Rank == rank(consistency_scores)
        selected_pitcher_rank == Rank[pitcher_name]
    IN [kind |-> "shape",
        score |-> overall_consistency_score,
        consistency_scores |-> consistency_scores,
        Rank |-> Rank,
        \* line 100: int(nan) raises ValueError and nothing more is rendered
        raised |-> IF selected_pitcher_rank.nan THEN "ValueError" ELSE "",
        rank_line |-> IF selected_pitcher_rank.nan THEN <<>>
                      ELSE <<IntOf(selected_pitcher_rank),
                             Cardinality(DOMAIN consistency_scores)>>,
        \* lines 106-111, on the run's own pitch_data (not reached after a raise)
        horizontal_std_inches |->
            IF selected_pitcher_rank.nan THEN NaN
            ELSE std_sq(ColXInches(with_inches(pitch_data))),
        vertical_std_inches |->
            IF selected_pitcher_rank.nan THEN NaN
            ELSE std_sq(ColZInches(with_inches(pitch_data)))]

\* the frames a run holds by name once lines 106-107 have assigned the inch
\* columns: data[mask] is a new frame each time, and the columns are set on
\* pitch_data
shape_frames(df, pitcher_name, pitch_type) ==
    LET pitcher_data == ByPlayer(df, pitcher_name)
        pitch_data == ByType(pitcher_data, pitch_type)
    IN [data |-> df,
        pitcher_data |-> pitcher_data,
        pitch_data |-> with_inches(pitch_data)]

\* the script runs again when a selectbox changes
ShapeSelect ==
    /\ app = "shape" /\ pc = "ready" /\ data # <<>>
    /\ \E pitcher_name \in all_pitchers(data) :
         \E pitch_type \in arsenal_of(data, pitcher_name) :
            /\ sel # [pitcher_name |-> pitcher_name, pitch_type |-> pitch_type]
            /\ sel' = [pitcher_name |-> pitcher_name, pitch_type |-> pitch_type]
            /\ view' = ShapeView(data, pitcher_name, pitch_type)
            \* a run that raised at line 100 assigned nothing
            /\ data' = IF view'.raised = ""
                       THEN shape_frames(data, pitcher_name, pitch_type).data
                       ELSE data
    /\ UNCHANGED <<app, pc, month, combined, has_cols, reported, mapped>>

\* the branch "if data.empty: st.error(No data available ...)"
NoData ==
    /\ pc = "ready" /\ data = <<>>
    /\ view.kind = "none"
    /\ view' = [kind |-> "no_data"]
    /\ UNCHANGED <<app, pc, month, combined, has_cols, reported, mapped, data, sel>>

ShapeDom == SetToSeq(ShapeRowSet)

\* one more row of the season reaches the table load_2024_data returns
ShapeRow ==
    /\ app = "shape" /\ pc = "ready" /\ view = NoView
    /\ \E i \in Followers(ShapeDom, mapped) :
          /\ mapped' = Append(mapped, ShapeDom[i])
          /\ data' = mapped'
    /\ UNCHANGED <<app, pc, month, combined, has_cols, reported, sel, view>>

InitApp(a) ==
    /\ app = a /\ pc = "ready" /\ month = 11
    /\ combined = <<>> /\ has_cols = TRUE /\ reported = {}
    /\ mapped = <<>> /\ data = <<>>
    /\ sel = NoSel /\ view = NoView

InitShape == InitApp("shape")
NextShape == ShapeRow \/ ShapeSelect \/ NoData
SpecShape == InitShape /\ [][NextShape]_vars

(***************************************************************************)
(* Text: a Python str is the sequence of its character codes, so that      *)
(* comparing two strings is comparing them code by code.                   *)
(***************************************************************************)
DotCh == <<46>>                       \* "."
NanText == <<110, 97, 110>>           \* "nan"
DigitCh(d) == <<48 + d>>

RECURSIVE NatText(_)
NatText(n) == IF n < 10 THEN DigitCh(n) ELSE NatText(n \div 10) \o DigitCh(n % 10)

\* the largest k with k*k <= m, by bisection of lo..hi
RECURSIVE ISqrtIn(_, _, _)
ISqrtIn(m, lo, hi) ==
    IF lo >= hi THEN lo
    ELSE LET mid == (lo + hi + 1) \div 2
         IN IF mid * mid <= m THEN ISqrtIn(m, mid, hi) ELSE ISqrtIn(m, lo, mid - 1)
\* a power of two whose square exceeds m
RECURSIVE SqrtCeiling(_, _)
SqrtCeiling(m, h) == IF h * h > m THEN h ELSE SqrtCeiling(m, 2 * h)
ISqrt(m) == ISqrtIn(m, 0, SqrtCeiling(m, 1))

\* round(num/den) to the nearest integer, a tie going to the even neighbour
RoundHalfEven(num, den) ==
    LET q == num \div den
        r2 == 2 * (num % den)
    IN IF r2 < den THEN q
       ELSE IF r2 > den THEN q + 1
       ELSE IF q % 2 = 0 THEN q ELSE q + 1

\* "{:.1f}".format(x): x rounded to tenths
Format1f(x) ==
    IF x.nan THEN NanText
    ELSE LET t == RoundHalfEven(10 * x.num, x.den)
         IN NatText(t \div 10) \o DotCh \o DigitCh(t % 10)

\* round(100 * sqrt(x)) for a radicand x: k = floor(200 * sqrt(x)) decides the side
SqrtHundredths(x) ==
    LET k == ISqrt((40000 * x.num) \div x.den)
        tie == k * k * x.den = 40000 * x.num
    IN IF k % 2 = 0 THEN k \div 2
       ELSE IF tie /\ ((k - 1) \div 2) % 2 = 0 THEN (k - 1) \div 2
       ELSE (k + 1) \div 2

\* "{:.2f}".format(np.sqrt(x)), x the radicand
Format2fSqrt(x) ==
    IF x.nan THEN NanText
    ELSE LET h == SqrtHundredths(x)
         IN NatText(h \div 100) \o DotCh \o DigitCh((h \div 10) % 10) \o DigitCh(h % 10)

\* a < b for two str values: by the first character that differs, a proper
\* prefix being the smaller
RECURSIVE TextLt(_, _)
TextLt(a, b) ==
    IF b = <<>> THEN FALSE
    ELSE IF a = <<>> THEN TRUE
    ELSE IF Head(a) # Head(b) THEN Head(a) < Head(b)
    ELSE TextLt(Tail(a), Tail(b))

(***************************************************************************)
(* mvmt_profile_distributions_app.py                                       *)
(***************************************************************************)
InchesPerFoot == 12

fastballs == {"Four-Seam Fastball", "Sinker", "Cutter", "Splitter", "Changeup"}
breaking_balls ==
    {"Slider", "Curveball", "Knuckle Curve", "Sweeper", "Sweeping Curve", "Slow Curve"}

Abs(x) == IF x < 0 THEN -x ELSE x

\* df.loc[df["pitch_type"].isin(types), "pfx_x"] = sign * np.abs(df["pfx_x"])
AssignAbsX(df, types, sign) ==
    [i \in 1..Len(df) |->
        IF df[i].pitch_type \in types
        THEN [df[i] EXCEPT !.pfx_x = sign * Abs(df[i].pfx_x)]
        ELSE df[i]]

\* lines 81-87: the copy of the pitcher's rows with the horizontal break re-signed
adjust_polarity_swapped(pitcher_data, pitcher_hand) ==
    IF pitcher_hand = "R"
    THEN AssignAbsX(AssignAbsX(pitcher_data, fastballs, 1), breaking_balls, -1)
    ELSE IF pitcher_hand = "L"
    THEN AssignAbsX(AssignAbsX(pitcher_data, fastballs, 1), breaking_balls, -1)
    ELSE pitcher_data
adjust_polarity(pitcher_data, pitcher_hand) ==
    IF pitcher_hand = "R"
    THEN AssignAbsX(AssignAbsX(pitcher_data, fastballs, 1), breaking_balls, -1)
    ELSE IF pitcher_hand = "L"
    THEN AssignAbsX(AssignAbsX(pitcher_data, fastballs, -1), breaking_balls, 1)
    ELSE pitcher_data

\* np.sqrt(std(pfx_x)**2 + std(pfx_z)**2 + std(release_speed)**2), as its radicand
consistency3_sq(group) ==
    FAdd(FAdd(std_sq(ColX(group)), std_sq(ColZ(group))),
         std_sq(ColV(group)))

GroupKeys(df) == {<<r.player_name, r.pitch_type>> : r \in Rows(df)}
GroupRows(df, g) == ByType(ByPlayer(df, g[1]), g[2])

\* data.groupby(["player_name", "pitch_type"]).apply(...): group -> score
all_pitchers_consistency(df) ==
    [g \in GroupKeys(df) |-> consistency3_sq(GroupRows(df, g))]

\* calculate_percentile(row): (row score <= scores of the same pitch type).mean() * 100
calculate_percentile(scores, g) ==
    LET same_pitch_type == {h \in DOMAIN scores : h[2] = g[2]}
        row_score == scores[g]
    IN Frac(100 * Cardinality({h \in same_pitch_type : FLeq(row_score, scores[h])}),
            Cardinality(same_pitch_type))

\* the table after lines 142-144: per group the two formatted columns
\* (score and pct are the floats the strings were made from)
consistency_table(df) ==
    LET scores == all_pitchers_consistency(df)
    IN [g \in DOMAIN scores |->
          LET score == scores[g]
              pct == calculate_percentile(scores, g)
          IN [score |-> score,
              pct |-> pct,
              Score |-> Format2fSqrt(score),
              Percentile |-> Format1f(pct)]]

\* the frames a run holds by name after lines 74-87: data[mask] is a new frame,
\* adjusted_pitcher_data is pitcher_data.copy(), and the .loc assignments write
\* into adjusted_pitcher_data
mvmt_frames_in_place(df, pitcher_name) ==
    LET pitcher_hand == ByPlayer(df, pitcher_name)[1].p_throws
        written == [i \in 1..Len(df) |->
                      IF df[i].player_name = pitcher_name
                      THEN adjust_polarity(<<df[i]>>, pitcher_hand)[1]
                      ELSE df[i]]
    IN [data |-> written,
        pitcher_data |-> ByPlayer(written, pitcher_name),
        adjusted_pitcher_data |-> ByPlayer(written, pitcher_name)]
mvmt_frames(df, pitcher_name) ==
    LET pitcher_data == ByPlayer(df, pitcher_name)
        pitcher_hand == pitcher_data[1].p_throws
    IN [data |-> df,
        pitcher_data |-> pitcher_data,
        adjusted_pitcher_data |-> adjust_polarity(pitcher_data, pitcher_hand)]

\* the pitch types of the model in the order groupby leaves its keys (sorted)
group_key_order == <<"Four-Seam Fastball", "Knuckleball", "Slider">>

\* sort_values(by="Consistency Score") on the column of formatted str values:
\* ascending by string comparison, rows with equal text keeping their order
sort_values_by_score_text(rows) ==
    LET n == Len(rows)
        Before(j, i) ==
            \/ TextLt(rows[j].Score, rows[i].Score)
            \/ (rows[j].Score = rows[i].Score /\ j < i)
        Pos(i) == Cardinality({j \in 1..n : Before(j, i)}) + 1
    IN [k \in 1..n |-> rows[CHOOSE i \in 1..n : Pos(i) = k]]

\* lines 147-148: the selected pitcher's rows of the formatted table, sorted
RECURSIVE rows_of(_, _, _)
rows_of(table, pitcher_name, types) ==
    IF types = <<>> THEN <<>>
    ELSE LET row == table[<<pitcher_name, Head(types)>>]
         IN <<[pitch_type |-> Head(types), score |-> row.score,
               Score |-> row.Score, Percentile |-> row.Percentile]>>
            \o rows_of(table, pitcher_name, Tail(types))
pitcher_consistency(table, pitcher_name) ==
    LET Thrown(t) == <<pitcher_name, t>> \in DOMAIN table
        types == SelectSeq(group_key_order, Thrown)
    IN sort_values_by_score_text(rows_of(table, pitcher_name, types))

MvmtView(df, pitcher_name) ==
    LET pitcher_data == ByPlayer(df, pitcher_name)
        pitcher_hand == pitcher_data[1].p_throws
        frames == mvmt_frames(df, pitcher_name)
        \* line 127 reads data after the assignments of lines 82-87
        table == consistency_table(frames.data)
    IN [kind |-> "mvmt",
        pitcher_hand |-> pitcher_hand,
        adjusted_pitcher_data |-> frames.adjusted_pitcher_data,
        table |-> table,
        pitcher_consistency |-> pitcher_consistency(table, pitcher_name),
        raised |-> ""]

\* the script runs again when the selectbox changes
MvmtSelect ==
    /\ app = "mvmt" /\ pc = "ready" /\ data # <<>>
    /\ \E pitcher_name \in all_pitchers(data) :
          /\ sel.pitcher_name # pitcher_name
          /\ sel' = [pitcher_name |-> pitcher_name, pitch_type |-> ""]
          /\ view' = MvmtView(data, pitcher_name)
          /\ data' = mvmt_frames(data, pitcher_name).data
    /\ UNCHANGED <<app, pc, month, combined, has_cols, reported, mapped>>

\* lines 54-55: pfx_x and pfx_z from feet to inches
to_inches_x_only(df) ==
    [i \in 1..Len(df) |-> [df[i] EXCEPT !.pfx_x = df[i].pfx_x * InchesPerFoot]]
to_inches(df) ==
    [i \in 1..Len(df) |->
        [df[i] EXCEPT !.pfx_x = df[i].pfx_x * InchesPerFoot,
                      !.pfx_z = df[i].pfx_z * InchesPerFoot]]

\* rows as mvmt_profile_distributions_app reads them, pitch type mapped;
\* a pitcher throws with one hand all season
Throws == [p \in Players |-> IF p = "p1" THEN "R" ELSE "L"]
MvmtTypes == {"Four-Seam Fastball", "Slider", "Knuckleball"}
\* (pfx_x, pfx_z in feet, release_speed in mph)
MvmtObs == {<<-1, 0, 90>>, <<1, 0, 90>>, <<1, 1, 90>>, <<1, 1, 91>>}
MvmtRowSet ==
    {[player_name |-> p, pitch_type |-> t, pfx_x |-> o[1], pfx_z |-> o[2],
      release_speed |-> o[3], p_throws |-> Throws[p]] :
        p \in Players, t \in MvmtTypes, o \in MvmtObs}

MvmtDom == SetToSeq(MvmtRowSet)

\* one more row of the season reaches the table load_2024_data returns
MvmtRow ==
    /\ app = "mvmt" /\ pc = "ready" /\ view = NoView
    /\ \E i \in Followers(MvmtDom, mapped) :
          /\ mapped' = Append(mapped, MvmtDom[i])
          /\ data' = to_inches(mapped')
    /\ UNCHANGED <<app, pc, month, combined, has_cols, reported, sel, view>>

InitMvmt == InitApp("mvmt")
NextMvmt == MvmtRow \/ MvmtSelect \/ NoData
SpecMvmt == InitMvmt /\ [][NextMvmt]_vars

(***************************************************************************)
(* player_profile_app.py                                                   *)
(***************************************************************************)
\* usecols of read_csv: the columns of the table the loader returns
expected_columns ==
    {"player_name", "pitch_type", "pfx_x", "pfx_z", "release_speed", "p_throws",
     "balls", "strikes", "events", "zone", "woba_value", "release_extension",
     "release_pos_y", "plate_x", "plate_z", "year", "month"}

\* len(player_data[player_data["events"] == e])
EventCount(player_data, e) ==
    LET Keep(r) == r.events = e IN Len(SelectSeq(player_data, Keep))

\* calculate_kbb_rate(player_data)
calculate_kbb_rate_unguarded(player_data) ==
    LET k_count == EventCount(player_data, "strikeout")
        bb_count == EventCount(player_data, "walk")
        total_pitches == Len(player_data)
    IN Frac(100 * (k_count - bb_count), total_pitches)
calculate_kbb_rate(player_data) ==
    LET k_count == EventCount(player_data, "strikeout")
        bb_count == EventCount(player_data, "walk")
        total_pitches == Len(player_data)
    IN IF total_pitches > 0 THEN Frac(100 * (k_count - bb_count), total_pitches)
       ELSE Frac(0, 1)

\* lines 114-124: the stats box (the placeholders are literal zeros)
stats_box(player_data, kbb_rate) ==
    [IP |-> Frac(Len(player_data), 3),
     K |-> kbb_rate,
     BB |-> Frac(0, 1),
     KBB |-> kbb_rate,
     HR |-> Frac(0, 1)]

\* a NaN in the integer columns balls / strikes is a negative number here
IsNaNCount(b) == b < 0

\* lines 141-142: groupby(["balls", "strikes", "pitch_type"]).size() (rows with a
\* NaN key are dropped), then Count / Count.sum() * 100 for each group
count_tree(player_data) ==
    LET Keyed(r) == ~IsNaNCount(r.balls) /\ ~IsNaNCount(r.strikes)
        keyed == SelectSeq(player_data, Keyed)
        keys == {<<r.balls, r.strikes, r.pitch_type>> : r \in Rows(keyed)}
        Count(k) ==
            LET In(r) == <<r.balls, r.strikes, r.pitch_type>> = k
            IN Len(SelectSeq(keyed, In))
        total == Len(keyed)
    IN [k \in keys |-> [Count |-> Count(k), Pct |-> Frac(100 * Count(k), total)]]

\* line 173: player_data["zone"].mean()
zone_mean(player_data) ==
    Frac(SumSeq([i \in 1..Len(player_data) |-> player_data[i].zone]), Len(player_data))

\* one run with a player selected.  Line 92 reads data["kbb_rate"], a column the
\* loader never loads: the lookup raises KeyError and the run ends there.
ProfileView(df, player_name) ==
    LET player_data == ByPlayer(df, player_name)
        kbb_rate == calculate_kbb_rate(player_data)
        found == "kbb_rate" \in expected_columns /\ "put_away_rate" \in expected_columns
    IN [kind |-> "profile",
        kbb_rate |-> kbb_rate,
        raised |-> IF found THEN "" ELSE "KeyError",
        stats |-> IF found THEN <<stats_box(player_data, kbb_rate)>> ELSE <<>>,
        count_tree |-> IF found THEN <<count_tree(player_data)>> ELSE <<>>,
        zone_pct |-> IF found THEN <<zone_mean(player_data)>> ELSE <<>>]

\* the script runs again when the selectbox changes
ProfileSelect ==
    /\ app = "profile" /\ pc = "ready" /\ data # <<>>
    /\ \E player_name \in all_pitchers(data) :
          /\ sel.pitcher_name # player_name
          /\ sel' = [pitcher_name |-> player_name, pitch_type |-> ""]
          /\ view' = ProfileView(data, player_name)
    /\ UNCHANGED <<app, pc, month, combined, has_cols, reported, mapped, data>>

\* rows as player_profile_app reads them (the columns the statistics use)
ProfileEvents == {"strikeout", "walk", "single"}
ProfileBalls == {-1, 0}
ProfileZones == {5, 12}
ProfileRowSet ==
    [player_name : Players, pitch_type : {"Four-Seam Fastball"}, events : ProfileEvents,
     balls : ProfileBalls, strikes : {0}, zone : ProfileZones]
ProfileDom == SetToSeq(ProfileRowSet)

\* one more row of the season reaches the table load_monthly_statcast returns
ProfileRow ==
    /\ app = "profile" /\ pc = "ready" /\ view = NoView
    /\ \E i \in Followers(ProfileDom, mapped) :
          /\ mapped' = Append(mapped, ProfileDom[i])
          /\ data' = mapped'
    /\ UNCHANGED <<app, pc, month, combined, has_cols, reported, sel, view>>

InitProfile == InitApp("profile")
NextProfile == ProfileRow \/ ProfileSelect \/ NoData
SpecProfile == InitProfile /\ [][NextProfile]_vars

(***************************************************************************)
(* The loaders: load_2024_data (shape, mvmt) and load_monthly_statcast     *)
(* (profile).                                                              *)
(***************************************************************************)
MaxFetched == 2         \* rows the monthly files hold together

FirstMonth == 3
LastMonth == 10

Apps == {"shape", "mvmt", "profile"}

\* pitch_type_mapping of the two consistency apps, and of player_profile_app
pitch_type_mapping_12 ==
    [c \in {"FF", "SL", "CU", "CH", "FS", "SI", "FC", "KC", "KN", "SV", "ST", "CS"} |->
        CASE c = "FF" -> "Four-Seam Fastball"
          [] c = "SL" -> "Slider"
          [] c = "CU" -> "Curveball"
          [] c = "CH" -> "Changeup"
          [] c = "FS" -> "Splitter"
          [] c = "SI" -> "Sinker"
          [] c = "FC" -> "Cutter"
          [] c = "KC" -> "Knuckle Curve"
          [] c = "KN" -> "Knuckleball"
          [] c = "SV" -> "Sweeper"
          [] c = "ST" -> "Sweeping Curve"
          [] c = "CS" -> "Slow Curve"]
pitch_type_mapping_9 ==
    [c \in {"FF", "SL", "CU", "CH", "SI", "FC", "KC", "KN", "SV"} |->
        pitch_type_mapping_12[c]]
pitch_type_mapping(a) ==
    IF a = "profile" THEN pitch_type_mapping_9 ELSE pitch_type_mapping_12

\* Series.map(mapping).fillna("Unknown") on one value (a NaN code maps to NaN)
map_pitch_type(a, code) ==
    IF code \in DOMAIN pitch_type_mapping(a) THEN pitch_type_mapping(a)[code] ELSE "Unknown"

\* the map, then combined_data[combined_data["pitch_type"] != "Unknown"]
map_and_filter(a, df) ==
    LET named == [i \in 1..Len(df) |->
                     [df[i] EXCEPT !.pitch_type = map_pitch_type(a, df[i].pitch_type)]]
        Known(r) == r.pitch_type # "Unknown"
    IN SelectSeq(named, Known)

\* what the loader returns for the rows it combined
loaded_table(a, df) ==
    IF a = "mvmt" THEN to_inches(map_and_filter(a, df)) ELSE map_and_filter(a, df)

\* raw pitch type codes a file may hold: two the mappings know, one of which only
\* the 12-code mapping knows, an eephus (no mapping knows it) and a missing value
RawCodes == {"FF", "FS", "EP", "NaN"}
RawRow(a, code) ==
    IF a = "shape"
    THEN [player_name |-> "p1", pitch_type |-> code, pfx_x |-> 1, pfx_z |-> 1]
    ELSE IF a = "mvmt"
    THEN [player_name |-> "p1", pitch_type |-> code, pfx_x |-> 1, pfx_z |-> 1,
          release_speed |-> 90, p_throws |-> "R"]
    ELSE [player_name |-> "p1", pitch_type |-> code, events |-> "single",
          balls |-> 0, strikes |-> 0, zone |-> 5]
\* the content of a monthly file: no row or one
MonthFiles(a) == {<<>>} \cup {<<RawRow(a, c)>> : c \in RawCodes}

\* one iteration of the loop whose request or parse raises: reported, skipped
FetchFails ==
    /\ pc = "loading" /\ month <= LastMonth
    /\ reported' = reported \cup {month}
    /\ month' = month + 1
    /\ UNCHANGED <<app, pc, combined, has_cols, mapped, data, sel, view>>

\* one iteration that reads its file: concat onto combined_data
FetchOk ==
    /\ pc = "loading" /\ month <= LastMonth
    /\ \E file \in MonthFiles(app) :
          /\ Len(combined) + Len(file) <= MaxFetched
          /\ combined' = combined \o file
    /\ has_cols' = TRUE
    /\ month' = month + 1
    /\ UNCHANGED <<app, pc, reported, mapped, data, sel, view>>

\* after the loop: with no file read combined_data is DataFrame(), which has no
\* "pitch_type" column, and combined_data["pitch_type"] raises KeyError
FinishLoad ==
    /\ pc = "loading" /\ month > LastMonth
    /\ IF has_cols
       THEN /\ mapped' = map_and_filter(app, combined)
            /\ data' = loaded_table(app, combined)
            /\ pc' = "ready"
       ELSE /\ pc' = "raised"
            /\ UNCHANGED <<mapped, data>>
    /\ UNCHANGED <<app, month, combined, has_cols, reported, sel, view>>

InitLoad ==
    /\ app \in Apps /\ pc = "loading" /\ month = FirstMonth
    /\ combined = <<>> /\ has_cols = FALSE /\ reported = {}
    /\ mapped = <<>> /\ data = <<>>
    /\ sel = NoSel /\ view = NoView

NextLoad == FetchFails \/ FetchOk \/ FinishLoad \/ NoData
SpecLoad == InitLoad /\ [][NextLoad]_vars

\* every app, from its loader or from a loaded table
Init == InitLoad \/ InitShape \/ InitMvmt \/ InitProfile
Next == NextLoad \/ NextShape \/ NextMvmt \/ NextProfile
Spec == Init /\ [][Next]_vars

(***************************************************************************)
(* The two apps that compute consistency scores, together.                 *)
(***************************************************************************)
InitScores == InitShape \/ InitMvmt
NextScores == NextShape \/ NextMvmt
SpecScores == InitScores /\ [][NextScores]_vars

(***************************************************************************)
(* Claims.                                                                 *)
(***************************************************************************)
\* the textbook sample variance (n-1 divisor): (n*sum(x^2) - sum(x)^2) / (n*(n-1))
SampleVar(xs) ==
    LET n == Len(xs)
        S == SumSeq(xs)
        Q == SumSeq([i \in 1..n |-> xs[i] * xs[i]])
    IN Frac(n * Q - S * S, n * (n - 1))
AllSame(xs) == \A i, j \in 1..Len(xs) : xs[i] = xs[j]
SelGroup == <<sel.pitcher_name, sel.pitch_type>>

Formula2(group) == FAdd(SampleVar(ColX(group)), SampleVar(ColZ(group)))
Formula3(group) == FAdd(Formula2(group), SampleVar(ColV(group)))

\* C1: for every group of at least 2 observations the computed score is
\* sqrt(sx^2 + sz^2) (sample standard deviations), with sv^2 added in the
\* three-metric app; a group of identical observations scores 0; and the score
\* shown for the selected pitcher is the one the ranking table holds for that
\* pitcher and pitch type.
C1_ScoreIsRootSumOfSampleVariances ==
    /\ view.kind = "shape" =>
        /\ \A p \in DOMAIN view.consistency_scores :
              LET group == GroupRows(data, <<p, sel.pitch_type>>)
              IN Len(group) >= 2 =>
                   /\ FEq(view.consistency_scores[p], Formula2(group))
                   /\ (AllSame(ColX(group)) /\ AllSame(ColZ(group))
                         => view.consistency_scores[p].num = 0)
        /\ Len(GroupRows(data, SelGroup)) >= 2 =>
              /\ FEq(view.score, view.consistency_scores[sel.pitcher_name])
              /\ FEq(view.score, Formula2(GroupRows(data, SelGroup)))
    /\ view.kind = "mvmt" =>
        \A g \in DOMAIN view.table :
            LET group == GroupRows(data, g)
            IN Len(group) >= 2 =>
                 /\ FEq(view.table[g].score, Formula3(group))
                 /\ (AllSame(ColX(group)) /\ AllSame(ColZ(group))
                        /\ AllSame(ColV(group))
                       => view.table[g].score.num = 0)

\* a ranking of two pitchers, the selected one with three observations that
\* spread in both directions
C1_Witness ==
    /\ view.kind = "shape"
    /\ Len(GroupRows(data, SelGroup)) >= 3
    /\ ~AllSame(ColX(GroupRows(data, SelGroup)))
    /\ ~AllSame(ColZ(GroupRows(data, SelGroup)))
    /\ Cardinality(DOMAIN view.consistency_scores) = 2
    /\ ~view.score.nan /\ view.score.num > 0

\* C2 (as claimed): a group of fewer than 2 observations gets an undefined score,
\* no rank or percentile derived from it is reported as an ordinary number, and
\* the run does not raise.
C2_UndefinedScoreIsReportedAsUndefined ==
    /\ view.kind = "shape" /\ Len(GroupRows(data, SelGroup)) < 2 =>
        /\ view.score.nan
        /\ view.raised = ""
        /\ view.Rank[sel.pitcher_name].nan
    /\ view.kind = "mvmt" =>
        \A g \in DOMAIN view.table :
            Len(GroupRows(data, g)) < 2 =>
                /\ view.table[g].Score = NanText
                /\ view.table[g].Percentile = NanText
                /\ view.raised = ""

\* the groups of g's pitch type in the table, and those with a defined score
Peers(g) == {h \in DOMAIN view.table : h[2] = g[2]}
DefinedPeers(g) == {h \in Peers(g) : ~view.table[h].score.nan}

\* C3 (as claimed): the reported percentile of every group is 100 * (groups of the
\* same pitch type scoring >= it, itself included) / (groups of that pitch type),
\* and a lower score never gets a lower percentile than a higher one.
C3_PercentileIsShareOfPeersAtOrAbove ==
    view.kind = "mvmt" =>
        \A g \in DOMAIN view.table :
            /\ view.table[g].Percentile =
                  Format1f(Frac(100 * Cardinality({h \in Peers(g) :
                                    h = g \/ FLeq(view.table[g].score, view.table[h].score)}),
                                Cardinality(Peers(g))))
            /\ \A h \in Peers(g) :
                  FLt(view.table[g].score, view.table[h].score)
                     => FLeq(view.table[h].pct, view.table[g].pct)

\* C4 (as claimed): with no two defined scores of a pitch type equal, the lowest
\* score of its N groups is at percentile 100 and the highest at 100/N, also when
\* some of the N groups have a single observation.
C4_BestIs100WorstIs100OverN ==
    view.kind = "mvmt" =>
        \A g \in DOMAIN view.table :
            (/\ ~view.table[g].score.nan
             /\ \A h, k \in DefinedPeers(g) :
                   h # k => ~FEq(view.table[h].score, view.table[k].score))
            => /\ (\A h \in DefinedPeers(g) : FLeq(view.table[g].score, view.table[h].score))
                     => view.table[g].Percentile = Format1f(Frac(100, 1))
               /\ (\A h \in DefinedPeers(g) : FLeq(view.table[h].score, view.table[g].score))
                     => view.table[g].Percentile = Format1f(Frac(100, Cardinality(Peers(g))))

\* C5 (as claimed): ranks ascend with the score, equal scores share a rank, the
\* uniquely lowest score has rank 1, and the displayed "Rank: r out of N" is the
\* selected pitcher's assigned rank, 1 <= r <= N.
C5_DisplayedRankIsAssignedRank ==
    view.kind = "shape" =>
        LET S == view.consistency_scores
            R == view.Rank
        IN /\ \A p, q \in DOMAIN S :
                /\ FLt(S[p], S[q]) => FLeq(R[p], R[q])
                /\ FEq(S[p], S[q]) => FEq(R[p], R[q])
           /\ \A p \in DOMAIN S :
                (~S[p].nan /\ \A q \in DOMAIN S \ {p} : S[q].nan \/ FLt(S[p], S[q]))
                   => FEq(R[p], Frac(1, 1))
           /\ view.rank_line # <<>> =>
                /\ FEq(Frac(view.rank_line[1], 1), R[sel.pitcher_name])
                /\ view.rank_line[2] = Cardinality(DOMAIN S)
                /\ 1 <= view.rank_line[1] /\ view.rank_line[1] <= view.rank_line[2]

\* the claim's two sets of pitch types
FastballLike == {"Four-Seam Fastball", "Sinker", "Cutter", "Splitter", "Changeup"}
BreakingLike ==
    {"Slider", "Curveball", "Knuckle Curve", "Sweeper", "Sweeping Curve", "Slow Curve"}

\* C6: in the selected pitcher's adjusted rows, a right-hander's fastball-like
\* rows carry |x| and breaking-ball-like rows -|x|, a left-hander's the mirror;
\* rows of other pitch types and every other column are unchanged; adjusting
\* the adjusted rows again changes nothing.
C6_PolarityAdjustment ==
    view.kind = "mvmt" =>
        LET pitcher_data == ByPlayer(data, sel.pitcher_name)
            adjusted == view.adjusted_pitcher_data
            hand == pitcher_data[1].p_throws
        IN /\ Len(adjusted) = Len(pitcher_data)
           /\ \A i \in 1..Len(pitcher_data) :
                LET o == pitcher_data[i]
                    a == adjusted[i]
                IN /\ (hand = "R" /\ o.pitch_type \in FastballLike) => a.pfx_x = Abs(o.pfx_x)
                   /\ (hand = "R" /\ o.pitch_type \in BreakingLike) => a.pfx_x = -Abs(o.pfx_x)
                   /\ (hand = "L" /\ o.pitch_type \in FastballLike) => a.pfx_x = -Abs(o.pfx_x)
                   /\ (hand = "L" /\ o.pitch_type \in BreakingLike) => a.pfx_x = Abs(o.pfx_x)
                   /\ o.pitch_type \notin FastballLike \cup BreakingLike => a.pfx_x = o.pfx_x
                   /\ a = [o EXCEPT !.pfx_x = a.pfx_x]
           /\ adjust_polarity(adjusted, hand) = adjusted

\* a left-hander with a fastball, a slider and a knuckleball, whose adjustment
\* re-signs a row
C6_Witness ==
    /\ view.kind = "mvmt"
    /\ view.pitcher_hand = "L"
    /\ {r.pitch_type : r \in Rows(view.adjusted_pitcher_data)} = MvmtTypes
    /\ view.adjusted_pitcher_data # ByPlayer(data, sel.pitcher_name)

\* x * 144
Times144(x) == IF x.nan THEN NaN ELSE Frac(144 * x.num, x.den)

\* C9 (as claimed): converting a group's movement from feet to inches multiplies
\* its score by 12 (the radicand by 144), for every score the program computes.
C9_ScoreScalesBy12 ==
    /\ view.kind = "mvmt" =>
        \A g \in DOMAIN view.table :
            Len(GroupRows(mapped, g)) >= 2 =>
                FEq(view.table[g].score, Times144(consistency3_sq(GroupRows(mapped, g))))
    /\ (view.kind = "shape" /\ view.raised = "") =>
        FEq(FAdd(view.horizontal_std_inches, view.vertical_std_inches),
            Times144(view.score))

\* C9 (amended): the two-metric score in inches is 12 times the score in feet;
\* of the three-metric score only the movement part scales, the radicand in inches
\* being 144 * (sx^2 + sz^2) + sv^2 with sx, sz in feet; and every row of the table
\* the scores of one comparison come from has both movement columns in one unit.
C9_MovementPartScalesBy12 ==
    /\ view.kind = "mvmt" =>
        /\ \A g \in DOMAIN view.table :
              Len(GroupRows(mapped, g)) >= 2 =>
                 FEq(view.table[g].score,
                     FAdd(Times144(consistency2_sq(GroupRows(mapped, g))),
                          std_sq(ColV(GroupRows(mapped, g)))))
        /\ \A i \in 1..Len(data) :
              /\ data[i].pfx_x = 12 * mapped[i].pfx_x
              /\ data[i].pfx_z = 12 * mapped[i].pfx_z
    /\ (view.kind = "shape" /\ view.raised = "") =>
        /\ FEq(FAdd(view.horizontal_std_inches, view.vertical_std_inches),
               Times144(view.score))
        /\ data = mapped

\* a group whose velocity and whose movement both vary
C9_Witness ==
    /\ view.kind = "mvmt"
    /\ \E g \in DOMAIN view.table :
          /\ Len(GroupRows(mapped, g)) >= 2
          /\ ~AllSame(ColV(GroupRows(mapped, g)))
          /\ ~AllSame(ColX(GroupRows(mapped, g)))
          /\ ~AllSame(ColZ(GroupRows(mapped, g)))

\* the selected player's rows, and the counts the claims speak of
PlayerRows(p) == ByPlayer(data, p)
StrikeoutsOf(p) == Cardinality({i \in 1..Len(PlayerRows(p)) : PlayerRows(p)[i].events = "strikeout"})
WalksOf(p) == Cardinality({i \in 1..Len(PlayerRows(p)) : PlayerRows(p)[i].events = "walk"})

C8_ReportedRates ==
    view.kind = "profile" =>
        LET T == Len(PlayerRows(sel.pitcher_name))
            K == StrikeoutsOf(sel.pitcher_name)
            B == WalksOf(sel.pitcher_name)
        IN /\ view.stats # <<>>
           /\ FEq(view.stats[1].K, Frac(100 * K, T))
           /\ FEq(view.stats[1].BB, Frac(100 * B, T))
           /\ FEq(view.stats[1].KBB, Frac(100 * (K - B), T))

\* the codes app a keeps
KeptBy(a, code) == code \in DOMAIN pitch_type_mapping(a)
AllNames == {pitch_type_mapping_12[c] : c \in DOMAIN pitch_type_mapping_12}

\* C10 (as claimed): every row of a returned table has a recognised pitch type,
\* never "Unknown"; a row is kept iff its raw code is recognised; and the three
\* apps recognise the same codes, so a row is kept by all loaders or by none.
C10_SameRowsKeptByAllLoaders ==
    (pc = "ready" /\ month > LastMonth /\ app \in Apps) =>
        /\ \A i \in 1..Len(data) : data[i].pitch_type \in AllNames \ {"Unknown"}
        /\ Len(data) = Cardinality({i \in 1..Len(combined) : KeptBy(app, combined[i].pitch_type)})
        /\ \A i \in 1..Len(combined) :
              \A a, b \in Apps :
                  KeptBy(a, combined[i].pitch_type) <=> KeptBy(b, combined[i].pitch_type)

(***************************************************************************)
(* C11: a query leaves the season table as the loader returned it.         *)
(***************************************************************************)
\* the table the loader returned for the rows it mapped and kept
Returned == IF app = "mvmt" THEN to_inches(mapped) ELSE mapped

\* C11: after any sequence of player / pitch-type selections the season table
\* equals, row for row and value for value, the table the loader returned,
\* and what the last run computed (the score and ranks of the shape app, the
\* selected pitcher's scores and percentiles and the adjusted per-query copy of
\* the movement app) is what that selection yields on the loader's table,
\* whatever was selected before.
C11_QueryLeavesSeasonTable ==
    pc = "ready" =>
        LET returned == Returned
        IN /\ data = returned
           /\ view.kind = "shape" =>
                 view = ShapeView(returned, sel.pitcher_name, sel.pitch_type)
           /\ view.kind = "mvmt" =>
                 LET scores == all_pitchers_consistency(returned)
                 IN /\ DOMAIN view.table = DOMAIN scores
                    /\ \A g \in DOMAIN view.table :
                          g[1] = sel.pitcher_name =>
                              /\ view.table[g].score = scores[g]
                              /\ view.table[g].pct = calculate_percentile(scores, g)
                    /\ view.adjusted_pitcher_data =
                          mvmt_frames(returned, sel.pitcher_name).adjusted_pitcher_data

\* a run whose polarity adjustment changed a value of its copy, with another
\* pitcher's rows in the table
C11_Witness ==
    /\ view.kind = "mvmt"
    /\ view.adjusted_pitcher_data # ByPlayer(data, sel.pitcher_name)
    /\ Cardinality(all_pitchers(data)) = 2
    /\ data = Returned

(***************************************************************************)
(* C12: the Zone% of the results table.                                    *)
(***************************************************************************)
\* the selected player's pitches whose zone code is one of the strike zone's
InZoneOf(p) == Cardinality({i \in 1..Len(PlayerRows(p)) : PlayerRows(p)[i].zone \in 1..9})

\* C12 (as claimed): the Zone% reported for the selected player is
\* 100 * (pitches with a zone code in 1..9) / (pitches), between 0 and 100.
C12_ZonePctIsShareInZone ==
    view.kind = "profile" =>
        LET T == Len(PlayerRows(sel.pitcher_name))
            share == Frac(100 * InZoneOf(sel.pitcher_name), T)
        IN /\ view.zone_pct # <<>>
           /\ FEq(view.zone_pct[1], share)
           /\ FLeq(Frac(0, 1), view.zone_pct[1]) /\ FLeq(view.zone_pct[1], Frac(100, 1))
           /\ FEq(zone_mean(PlayerRows(sel.pitcher_name)), share)

(***************************************************************************)
(* C13: the loader over the eight monthly files.                           *)
(***************************************************************************)
AllMonths == FirstMonth..LastMonth

\* C13 (as claimed): the loader goes through the months March..October in
\* order, reports and skips a month that fails and goes on with the next, and
\* returns exactly the recognised rows of the months it read, in month order;
\* it never raises, and when every month failed it returns an empty table and
\* the app shows "No data available".
C13_LoaderSkipsFailedMonths ==
    /\ month \in FirstMonth..(LastMonth + 1)
    /\ reported \subseteq FirstMonth..(month - 1)
    /\ pc = "loading" => view = NoView /\ data = <<>>
    /\ pc # "raised"
    /\ pc = "ready" =>
          /\ month = LastMonth + 1
          /\ data = loaded_table(app, combined)
          /\ view.kind \in {"none", "no_data"}
          /\ reported = AllMonths => data = <<>>
          /\ view.kind = "no_data" => data = <<>>

(***************************************************************************)
(* C14: the "Pitch Consistency Rankings" table of the selected pitcher.    *)
(***************************************************************************)
\* the pitch types the selected pitcher threw
ThrownBy(p) == {PlayerRows(p)[i].pitch_type : i \in 1..Len(PlayerRows(p))}

\* C14 (as claimed): the table shown for the selected pitcher has exactly one
\* row per pitch type the pitcher threw, and its rows are in ascending order of
\* the numeric Consistency Score (compared here as the displayed hundredths;
\* rows with an undefined score are not compared).
C14_TableAscendingByNumericScore ==
    view.kind = "mvmt" =>
        LET t == view.pitcher_consistency
        IN /\ Len(t) = Cardinality(ThrownBy(sel.pitcher_name))
           /\ {t[i].pitch_type : i \in 1..Len(t)} = ThrownBy(sel.pitcher_name)
           /\ \A i, j \in 1..Len(t) :
                 (i < j /\ ~t[i].score.nan /\ ~t[j].score.nan) =>
                     SqrtHundredths(t[i].score) <= SqrtHundredths(t[j].score)

====
